---- MODULE Spec2Model ----
(***************************************************************************)
(* A model of the custom differentiable linear layer of the notebook      *)
(* "how to make own layers, activation functions or losses":              *)
(* LinearFunction (forward / backward over an autograd context) and the   *)
(* Linear module that owns the weight and the bias; and of the training   *)
(* loop of the regression notebook.                                       *)
(*                                                                         *)
(* Tensors are modelled as torch stores them: a shape and a flat,         *)
(* row-major sequence of entries.  Entries are integers standing for      *)
(* reals; parameter entries are counted in tenths, so the initialisation  *)
(* range [-0.1, 0.1] is -InitLimit..InitLimit.                            *)
(***************************************************************************)
EXTENDS Integers, Sequences, FiniteSets, TLC

VARIABLES module, init_params, calls, grads, repeated, printed, loop

vars == <<module, init_params, calls, grads, repeated, printed, loop>>

(***************************************************************************)
(* Bounds of the model.                                                    *)
(***************************************************************************)
\* largest batch size and feature count
MaxDim == 2
\* contents of the tensors the callers pass are Fill(shape, 0..MaxSeed), and
\* the draws of the random generator are 0..MaxSeed
MaxSeed == 1
\* number of LinearFunction.apply calls (autograd contexts) in one run
MaxCtx == 2

\* uniform_(-0.1, 0.1), in tenths
InitLimit == 1

\* for epoch in range(10)
Epochs == 10

Dims == 1..MaxDim
Seeds == 0..MaxSeed
BOOL3 == {<<a, b, c>> : a \in BOOLEAN, b \in BOOLEAN, c \in BOOLEAN}

(***************************************************************************)
(* Tensors.                                                                *)
(***************************************************************************)
None == [isNone |-> TRUE, shape |-> <<>>, data |-> <<>>]

Tensor(shape, data) == [isNone |-> FALSE, shape |-> shape, data |-> data]

RECURSIVE numel(_)
numel(shape) == IF shape = <<>> THEN 1 ELSE Head(shape) * numel(Tail(shape))

\* entry (r, c) of a 2-D tensor
At2(a, r, c) == a.data[(r - 1) * a.shape[2] + c]

\* row and column of the i-th entry of a 2-D tensor with cols columns
RowOf(i, cols) == ((i - 1) \div cols) + 1
ColOf(i, cols) == ((i - 1) % cols) + 1

RECURSIVE SumTo(_, _)
SumTo(f, n) == IF n = 0 THEN 0 ELSE f[n] + SumTo(f, n - 1)

Ok(value) == [raised |-> "", value |-> value]
Raise(msg) == [raised |-> msg, value |-> None]

\* Tensor.t(): the transpose of a 2-D tensor, a new tensor
t(a) ==
    LET rows == a.shape[2]
        cols == a.shape[1]
    IN  Tensor(<<rows, cols>>,
               [i \in 1..(rows * cols) |-> At2(a, ColOf(i, cols), RowOf(i, cols))])

\* Tensor.mm(b): matrix product; the inner dimensions must agree
mm(a, b) ==
    IF Len(a.shape) # 2 \/ Len(b.shape) # 2
    THEN Raise("RuntimeError: matrices expected")
    ELSE IF a.shape[2] # b.shape[1]
    THEN Raise("RuntimeError: size mismatch")
    ELSE LET rows == a.shape[1]
             cols == b.shape[2]
             inner == a.shape[2]
         IN  Ok(Tensor(<<rows, cols>>,
                 [i \in 1..(rows * cols) |->
                     SumTo([j \in 1..inner |->
                              At2(a, RowOf(i, cols), j) * At2(b, j, ColOf(i, cols))],
                           inner)]))

\* Tensor.unsqueeze(0): a leading dimension of size 1
unsqueeze0(a) == Tensor(<<1>> \o a.shape, a.data)

\* Tensor.expand_as(other) for 2-D tensors: dimensions of size 1 are repeated
expand_as(a, other) ==
    IF Len(a.shape) # 2 \/ Len(other.shape) # 2
    THEN Raise("RuntimeError: expand")
    ELSE IF \E d \in 1..2 : a.shape[d] # other.shape[d] /\ a.shape[d] # 1
    THEN Raise("RuntimeError: the expanded size must match the existing size")
    ELSE LET rows == other.shape[1]
             cols == other.shape[2]
         IN  Ok(Tensor(<<rows, cols>>,
                 [i \in 1..(rows * cols) |->
                     At2(a, IF a.shape[1] = 1 THEN 1 ELSE RowOf(i, cols),
                            IF a.shape[2] = 1 THEN 1 ELSE ColOf(i, cols))]))

\* a += b, entry by entry, for tensors of one shape: the new contents of a
iadd(a, b) == Tensor(a.shape, [i \in 1..Len(a.data) |-> a.data[i] + b.data[i]])

\* Tensor.sum(0) of a 2-D tensor: the sum over the rows, one entry per column
sum0(a) ==
    LET rows == a.shape[1]
        cols == a.shape[2]
    IN  Tensor(<<cols>>,
               [c \in 1..cols |-> SumTo([r \in 1..rows |-> At2(a, r, c)], rows)])

\* Tensor.squeeze(0): drops dimension 0 when its size is 1
squeeze0(a) ==
    IF Len(a.shape) >= 1 /\ a.shape[1] = 1
    THEN Tensor(Tail(a.shape), a.data)
    ELSE a

\* torch.Tensor(*shape): storage that is not initialised, here holding g
torch_Tensor(shape, g) == Tensor(shape, [i \in 1..numel(shape) |-> g])

\* Tensor.uniform_(from, to): every entry redrawn in from..to; seed picks the draw
uniform_(a, from, to, seed) ==
    Tensor(a.shape,
           [i \in 1..Len(a.data) |-> from + ((seed + 2 * i) % (to - from + 1))])

\* the tensors a caller passes: entries in -2..2, decided by shape and seed
Fill(shape, seed) ==
    Tensor(shape,
           [i \in 1..numel(shape) |-> ((2 * seed + 3 * i + numel(shape)) % 5) - 2])

(***************************************************************************)
(* LinearFunction.                                                         *)
(***************************************************************************)
\* the context autograd hands to forward: nothing saved yet
new_ctx(needs) == [saved_tensors |-> <<>>, needs_input_grad |-> needs]

save_for_backward(ctx, input, weight, bias) ==
    [ctx EXCEPT !.saved_tensors = <<input, weight, bias>>]

\* output += bias.unsqueeze(0).expand_as(output), when there is a bias
add_bias(base, output, bias) ==
    IF bias.isNone
    THEN [base EXCEPT !.output = output]
    ELSE LET e == expand_as(unsqueeze0(bias), output)
         IN  IF e.raised # ""
             THEN [base EXCEPT !.raised = e.raised]
             ELSE [base EXCEPT !.output = iadd(output, e.value)]

\* the first cols columns of a 2-D tensor
narrow(a, cols) ==
    Tensor(<<a.shape[1], cols>>,
           [i \in 1..(a.shape[1] * cols) |-> At2(a, RowOf(i, cols), ColOf(i, cols))])

Min(a, b) == IF a <= b THEN a ELSE b

\* forward with the weight not transposed: input.mm(weight)
forward_untransposed(ctx, input, weight, bias) ==
    LET saved == save_for_backward(ctx, input, weight, bias)
        prod == mm(input, weight)
        base == [raised |-> "", ctx |-> saved, output |-> None,
                 input |-> input, weight |-> weight, bias |-> bias]
    IN  IF prod.raised # ""
        THEN [base EXCEPT !.raised = prod.raised]
        ELSE add_bias(base, prod.value, bias)

\* forward multiplying over the columns input and weight have in common
forward_truncating(ctx, input, weight, bias) ==
    LET saved == save_for_backward(ctx, input, weight, bias)
        common == Min(input.shape[2], weight.shape[2])
        prod == mm(narrow(input, common), t(narrow(weight, common)))
        base == [raised |-> "", ctx |-> saved, output |-> None,
                 input |-> input, weight |-> weight, bias |-> bias]
    IN  IF prod.raised # ""
        THEN [base EXCEPT !.raised = prod.raised]
        ELSE add_bias(base, prod.value, bias)

\* forward transposing the weight in place: weight.t_()
forward_t_in_place(ctx, input, weight, bias) ==
    LET saved == save_for_backward(ctx, input, weight, bias)
        prod == mm(input, t(weight))
        base == [raised |-> "", ctx |-> saved, output |-> None,
                 input |-> input, weight |-> t(weight), bias |-> bias]
    IN  IF prod.raised # ""
        THEN [base EXCEPT !.raised = prod.raised]
        ELSE add_bias(base, prod.value, bias)

\* LinearFunction.forward.  The result names what the call raised (if anything),
\* the context as the call leaves it, the output, and the contents of the three
\* argument tensors after the call (they are passed by reference).
forward(ctx, input, weight, bias) ==
    LET saved == save_for_backward(ctx, input, weight, bias)
        prod == mm(input, t(weight))
        base == [raised |-> "", ctx |-> saved, output |-> None,
                 input |-> input, weight |-> weight, bias |-> bias]
    IN  IF prod.raised # ""
        THEN [base EXCEPT !.raised = prod.raised]
        ELSE add_bias(base, prod.value, bias)

NoGradients ==
    [raised |-> "", grad_input |-> None, grad_weight |-> None, grad_bias |-> None]

\* backward computing every gradient, requested or not
backward_unconditional(ctx, grad_output) ==
    LET input == ctx.saved_tensors[1]
        weight == ctx.saved_tensors[2]
        gi == mm(grad_output, weight)
        gw == mm(t(grad_output), input)
    IN  IF gi.raised # ""
        THEN [NoGradients EXCEPT !.raised = gi.raised]
        ELSE IF gw.raised # ""
        THEN [NoGradients EXCEPT !.raised = gw.raised]
        ELSE [raised |-> "", grad_input |-> gi.value, grad_weight |-> gw.value,
              grad_bias |-> squeeze0(sum0(grad_output))]

\* backward reading the tensors the latest forward saved, whichever context
\* it is given
backward_latest(ctx, grad_output) ==
    LET latest == calls[Len(calls)].ctx
        input == latest.saved_tensors[1]
        weight == latest.saved_tensors[2]
        bias == latest.saved_tensors[3]
        gi == IF ctx.needs_input_grad[1] THEN mm(grad_output, weight) ELSE Ok(None)
        gw == IF ctx.needs_input_grad[2] THEN mm(t(grad_output), input) ELSE Ok(None)
        gb == IF ~bias.isNone /\ ctx.needs_input_grad[3]
              THEN squeeze0(sum0(grad_output))
              ELSE None
    IN  IF gi.raised # ""
        THEN [NoGradients EXCEPT !.raised = gi.raised]
        ELSE IF gw.raised # ""
        THEN [NoGradients EXCEPT !.raised = gw.raised]
        ELSE [raised |-> "", grad_input |-> gi.value, grad_weight |-> gw.value,
              grad_bias |-> gb]

\* backward adding the weight gradient to the one the previous backward left
backward_accumulating(ctx, grad_output) ==
    LET input == ctx.saved_tensors[1]
        weight == ctx.saved_tensors[2]
        bias == ctx.saved_tensors[3]
        before == grads.result.grad_weight
        gi == IF ctx.needs_input_grad[1] THEN mm(grad_output, weight) ELSE Ok(None)
        gw == IF ctx.needs_input_grad[2] THEN mm(t(grad_output), input) ELSE Ok(None)
        gb == IF ~bias.isNone /\ ctx.needs_input_grad[3]
              THEN squeeze0(sum0(grad_output))
              ELSE None
    IN  IF gi.raised # ""
        THEN [NoGradients EXCEPT !.raised = gi.raised]
        ELSE IF gw.raised # ""
        THEN [NoGradients EXCEPT !.raised = gw.raised]
        ELSE [raised |-> "", grad_input |-> gi.value,
              grad_weight |-> IF ~gw.value.isNone /\ before.shape = gw.value.shape
                              THEN iadd(gw.value, before)
                              ELSE gw.value,
              grad_bias |-> gb]

\* Tensor.sum(1) of a 2-D tensor: the sum over the columns, one entry per row
sum1(a) ==
    LET rows == a.shape[1]
        cols == a.shape[2]
    IN  Tensor(<<rows>>,
               [r \in 1..rows |-> SumTo([c \in 1..cols |-> At2(a, r, c)], cols)])

\* backward summing the bias gradient over the wrong dimension
backward_bias_over_columns(ctx, grad_output) ==
    LET input == ctx.saved_tensors[1]
        weight == ctx.saved_tensors[2]
        bias == ctx.saved_tensors[3]
        gi == IF ctx.needs_input_grad[1] THEN mm(grad_output, weight) ELSE Ok(None)
        gw == IF ctx.needs_input_grad[2] THEN mm(t(grad_output), input) ELSE Ok(None)
        gb == IF ~bias.isNone /\ ctx.needs_input_grad[3]
              THEN squeeze0(sum1(grad_output))
              ELSE None
    IN  IF gi.raised # ""
        THEN [NoGradients EXCEPT !.raised = gi.raised]
        ELSE IF gw.raised # ""
        THEN [NoGradients EXCEPT !.raised = gw.raised]
        ELSE [raised |-> "", grad_input |-> gi.value, grad_weight |-> gw.value,
              grad_bias |-> gb]

\* LinearFunction.backward
backward(ctx, grad_output) ==
    LET input == ctx.saved_tensors[1]
        weight == ctx.saved_tensors[2]
        bias == ctx.saved_tensors[3]
        gi == IF ctx.needs_input_grad[1] THEN mm(grad_output, weight) ELSE Ok(None)
        gw == IF ctx.needs_input_grad[2] THEN mm(t(grad_output), input) ELSE Ok(None)
        gb == IF ~bias.isNone /\ ctx.needs_input_grad[3]
              THEN squeeze0(sum0(grad_output))
              ELSE None
    IN  IF gi.raised # ""
        THEN [NoGradients EXCEPT !.raised = gi.raised]
        ELSE IF gw.raised # ""
        THEN [NoGradients EXCEPT !.raised = gw.raised]
        ELSE [raised |-> "", grad_input |-> gi.value, grad_weight |-> gw.value,
              grad_bias |-> gb]

(***************************************************************************)
(* The Linear module.  The bias argument is a Python value: "True",       *)
(* "False" or "None".                                                      *)
(***************************************************************************)
BiasArgs == {"True", "False", "None"}

NoSelf == [input_features |-> 0, output_features |-> 0, weight |-> None, bias |-> None]

\* __init__ leaving the bias as torch.Tensor(...) allocated it
Linear_init_bias_unset(input_features, output_features, bias, seed, g) ==
    LET weight == torch_Tensor(<<output_features, input_features>>, g)
        self_bias == IF bias = "True" THEN torch_Tensor(<<output_features>>, g) ELSE None
    IN  [raised |-> "",
         self |-> [input_features |-> input_features,
                   output_features |-> output_features,
                   weight |-> uniform_(weight, -InitLimit, InitLimit, seed),
                   bias |-> self_bias]]

\* Linear.__init__; seed is the draw of the random generator and g what the
\* uninitialised storage of torch.Tensor(...) happens to hold
Linear_init(input_features, output_features, bias, seed, g) ==
    LET weight == torch_Tensor(<<output_features, input_features>>, g)
        self_bias == IF bias = "True" THEN torch_Tensor(<<output_features>>, g) ELSE None
        self == [input_features |-> input_features,
                 output_features |-> output_features,
                 weight |-> uniform_(weight, -InitLimit, InitLimit, seed),
                 bias |-> self_bias]
    IN  IF bias # "None"
        THEN IF self_bias.isNone
             THEN [raised |-> "AttributeError: 'NoneType' object has no attribute 'data'",
                   self |-> NoSelf]
             ELSE [raised |-> "",
                   self |-> [self EXCEPT
                               !.bias = uniform_(self_bias, -InitLimit, InitLimit, seed + 1)]]
        ELSE [raised |-> "", self |-> self]

\* Linear.forward: LinearFunction.apply(input, self.weight, self.bias); the
\* parameters require gradients, the input does when the caller says so
Linear_forward(self, input, input_requires_grad) ==
    forward(new_ctx(<<input_requires_grad, TRUE, ~self.bias.isNone>>),
            input, self.weight, self.bias)

\* self.<name>: an attribute __init__ has set, or AttributeError
getattr(self, name) ==
    IF name \in DOMAIN self
    THEN [raised |-> "", value |-> self[name]]
    ELSE [raised |-> "AttributeError: 'Linear' object has no attribute '" \o name \o "'",
          value |-> 0]

\* Linear.extra_repr; the arguments of format are evaluated from left to right
extra_repr(self) ==
    LET first == getattr(self, "in_features")
        second == getattr(self, "out_features")
    IN  IF first.raised # ""
        THEN [raised |-> first.raised, text |-> ""]
        ELSE IF second.raised # ""
        THEN [raised |-> second.raised, text |-> ""]
        ELSE [raised |-> "",
              text |-> "in_features=" \o ToString(first.value)
                         \o ", out_features=" \o ToString(second.value)
                         \o ", bias=" \o (IF self.bias.isNone THEN "False" ELSE "True")]

(***************************************************************************)
(* The state: the module (if constructed), its parameters as created, the *)
(* apply calls made so far, each with its context, the last backward,     *)
(* whether it was given the arguments of the backward before it, what     *)
(* printing the module gave, and the training loop.                       *)
(***************************************************************************)
NoModule == [status |-> "none", raised |-> "", bias_arg |-> "None",
             in_arg |-> 0, out_arg |-> 0, self |-> NoSelf]

NoGrads == [call |-> 0, grad_output |-> None, result |-> NoGradients]

\* nothing printed yet
NotPrinted == [called |-> FALSE, raised |-> "", text |-> ""]

\* the training loop before its first epoch: the parameters theta as created,
\* no gradient stored, no graph built
LoopStart ==
    [pc |-> "forward", epoch |-> 0, theta |-> 0, grad |-> 0, fresh |-> 0,
     graph |-> FALSE,
     forwards |-> 0, losses |-> 0, zeroings |-> 0, backwards |-> 0, steps |-> 0]

Init ==
    /\ printed = NotPrinted
    /\ loop = LoopStart
    /\ module = NoModule
    /\ init_params = [weight |-> None, bias |-> None]
    /\ calls = <<>>
    /\ grads = NoGrads
    /\ repeated = FALSE

\* fc = Linear(input_features, output_features, bias)
Construct(input_features, output_features, bias, seed, g) ==
    /\ module.status = "none"
    /\ LET r == Linear_init(input_features, output_features, bias, seed, g)
       IN  /\ module' = [status |-> IF r.raised = "" THEN "ok" ELSE "raised",
                         raised |-> r.raised, bias_arg |-> bias,
                         in_arg |-> input_features, out_arg |-> output_features,
                         self |-> r.self]
           /\ init_params' = [weight |-> r.self.weight, bias |-> r.self.bias]
    /\ UNCHANGED <<calls, grads, repeated, printed, loop>>

\* the record of one apply call: what was passed and what forward made of it
CallRecord(input, weight, bias, r) ==
    [passed |-> [input |-> input, weight |-> weight, bias |-> bias],
     raised |-> r.raised, ctx |-> r.ctx, output |-> r.output,
     after |-> [input |-> r.input, weight |-> r.weight, bias |-> r.bias]]

\* fc(input)
ModuleForward(input, input_requires_grad) ==
    /\ module.status = "ok"
    /\ Len(calls) < MaxCtx
    /\ LET r == Linear_forward(module.self, input, input_requires_grad)
       IN  /\ calls' = Append(calls,
                  CallRecord(input, module.self.weight, module.self.bias, r))
           /\ module' = [module EXCEPT !.self.weight = r.weight, !.self.bias = r.bias]
    /\ UNCHANGED <<init_params, grads, repeated, printed, loop>>

\* LinearFunction.apply(input, weight, bias) on the caller's own tensors
Apply(input, weight, bias, needs) ==
    /\ module.status = "none"
    /\ calls = <<>>
    /\ LET r == forward(new_ctx(needs), input, weight, bias)
       IN  calls' = <<CallRecord(input, weight, bias, r)>>
    /\ UNCHANGED <<module, init_params, grads, repeated, printed, loop>>

\* autograd runs the backward of call c with the upstream gradient grad_output
Backward(c, grad_output) ==
    /\ c \in 1..Len(calls)
    /\ calls[c].raised = ""
    /\ grads' = [call |-> c, grad_output |-> grad_output,
                 result |-> backward(calls[c].ctx, grad_output)]
    /\ repeated' = /\ grads.call # 0
                   /\ calls[grads.call].ctx = calls[c].ctx
                   /\ grads.grad_output = grad_output
    /\ UNCHANGED <<module, init_params, calls, printed, loop>>

(***************************************************************************)
(* The inputs.                                                             *)
(***************************************************************************)
\* what uninitialised storage may hold
Garbage == {0, 7}

\* the concrete scenario of the specification
ScenarioX == Tensor(<<1, 2>>, <<1, 1>>)
ScenarioW == Tensor(<<1, 2>>, <<2, 3>>)
ScenarioB == Tensor(<<1>>, <<1>>)
ScenarioDY == Tensor(<<1, 1>>, <<1>>)

Matrices == {Fill(<<r, c>>, s) : r \in Dims, c \in Dims, s \in Seeds}

\* torch.ones(shape): the upstream gradient of the loss L = sum of the output
Ones(shape) == Tensor(shape, [i \in 1..numel(shape) |-> 1])

OnesMatrices == {Ones(<<r, c>>) : r \in Dims, c \in Dims}

\* a bias for a weight of k rows: absent, or of length k
BiasesFor(weight) ==
    {None, Fill(<<weight.shape[1]>>, 0)}
        \cup (IF weight = ScenarioW THEN {ScenarioB} ELSE {})

\* the batches passed to the module: MaxDim rows of input_features entries
BatchesFor(self) ==
    {Fill(<<MaxDim, self.input_features>>, s) : s \in Seeds}

\* upstream gradients of the shape of the output of call c
GradOutputsFor(c) == {Fill(calls[c].output.shape, s) : s \in Seeds}

(***************************************************************************)
(* Spec: a Linear module is constructed and used.                          *)
(***************************************************************************)
Next ==
    \/ /\ module.status = "none"
       /\ \E i \in Dims, o \in Dims, b \in BiasArgs, s \in Seeds, g \in Garbage :
             Construct(i, o, b, s, g)
    \/ /\ module.status = "ok"
       /\ \E q \in BOOLEAN :
             \E x \in BatchesFor(module.self) : ModuleForward(x, q)
    \/ \E c \in 1..Len(calls) :
          /\ calls[c].raised = ""
          /\ \E dy \in GradOutputsFor(c) : Backward(c, dy)

Spec == Init /\ [][Next]_vars

\* print(fc): Module.__repr__ asks extra_repr for the description
Repr ==
    /\ module.status = "ok"
    /\ ~printed.called
    /\ LET r == extra_repr(module.self)
       IN  printed' = [called |-> TRUE, raised |-> r.raised, text |-> r.text]
    /\ UNCHANGED <<module, init_params, calls, grads, repeated, loop>>

(***************************************************************************)
(* SpecRepr: a Linear module is constructed, used and printed.             *)
(***************************************************************************)
NextRepr ==
    \/ Next
    \/ Repr

SpecRepr == Init /\ [][NextRepr]_vars

(***************************************************************************)
(* SpecFn: LinearFunction is applied once to tensors of any shapes, and    *)
(* its backward is run once with an upstream gradient of any shape.       *)
(***************************************************************************)
NextFn ==
    \/ /\ calls = <<>>
       /\ \E x \in Matrices \cup {ScenarioX}, w \in Matrices \cup {ScenarioW},
             needs \in BOOL3 :
             \E b \in BiasesFor(w) : Apply(x, w, b, needs)
    \/ /\ grads = NoGrads
       /\ \E dy \in Matrices \cup OnesMatrices \cup {ScenarioDY} : Backward(1, dy)

SpecFn == Init /\ [][NextFn]_vars

(***************************************************************************)
(* The training loop of the regression notebook.  The network and the     *)
(* data are abstracted: theta stands for the parameters, grad for their   *)
(* stored .grad, and the gradient a backward pass computes is any of      *)
(* Gradients.  The counters record how often each statement has run.      *)
(***************************************************************************)
Gradients == {-1, 0, 1}

\* output = model(X_train_torch): builds the graph of this step
model_forward(l) ==
    [l EXCEPT !.graph = TRUE, !.forwards = @ + 1, !.pc = "loss"]

\* loss = criterion(output, ...); print(...)
criterion(l) ==
    [l EXCEPT !.losses = @ + 1, !.pc = "zero_grad"]

\* optimizer.zero_grad() leaving the stored gradients as they are
zero_grad_skipped(l) ==
    [l EXCEPT !.zeroings = @ + 1, !.pc = "backward"]

\* optimizer.zero_grad(): the stored gradients are cleared
zero_grad(l) ==
    [l EXCEPT !.grad = 0, !.zeroings = @ + 1, !.pc = "backward"]

\* loss.backward(): the gradient g of this step is added to the stored one,
\* and the graph is freed
loss_backward(l, g) ==
    [l EXCEPT !.grad = @ + g, !.fresh = g, !.graph = FALSE,
              !.backwards = @ + 1, !.pc = "step"]

\* optimizer.step(), and the loop's next epoch or its end
optimizer_step(l) ==
    [l EXCEPT !.theta = @ - l.grad, !.steps = @ + 1, !.epoch = @ + 1,
              !.pc = IF l.epoch + 1 < Epochs THEN "forward" ELSE "done"]

TrainForward ==
    /\ loop.pc = "forward"
    /\ loop.epoch < Epochs
    /\ loop' = model_forward(loop)
    /\ UNCHANGED <<module, init_params, calls, grads, repeated, printed>>

TrainLoss ==
    /\ loop.pc = "loss"
    /\ loop' = criterion(loop)
    /\ UNCHANGED <<module, init_params, calls, grads, repeated, printed>>

TrainZeroGrad ==
    /\ loop.pc = "zero_grad"
    /\ loop' = zero_grad(loop)
    /\ UNCHANGED <<module, init_params, calls, grads, repeated, printed>>

TrainBackward(g) ==
    /\ loop.pc = "backward"
    /\ loop' = loss_backward(loop, g)
    /\ UNCHANGED <<module, init_params, calls, grads, repeated, printed>>

TrainStep ==
    /\ loop.pc = "step"
    /\ loop' = optimizer_step(loop)
    /\ UNCHANGED <<module, init_params, calls, grads, repeated, printed>>

(***************************************************************************)
(* SpecTrain: the training loop runs.                                      *)
(***************************************************************************)
NextTrain ==
    \/ TrainForward
    \/ TrainLoss
    \/ TrainZeroGrad
    \/ \E g \in Gradients : TrainBackward(g)
    \/ TrainStep

SpecTrain == Init /\ [][NextTrain]_vars

(***************************************************************************)
(* What the properties below speak of, stated entry by entry.              *)
(***************************************************************************)
\* sum over j of X[r][j] * W[i][j], plus b[i] when there is a bias
EntryY(x, w, b, r, i) ==
    SumTo([j \in 1..x.shape[2] |-> At2(x, r, j) * At2(w, i, j)], x.shape[2])
        + (IF b.isNone THEN 0 ELSE b.data[i])

\* sum over i of dY[r][i] * W[i][j]
EntryDX(dy, w, r, j) ==
    SumTo([i \in 1..w.shape[1] |-> At2(dy, r, i) * At2(w, i, j)], w.shape[1])

\* sum over r of dY[r][i] * X[r][j]
EntryDW(dy, x, i, j) ==
    SumTo([r \in 1..x.shape[1] |-> At2(dy, r, i) * At2(x, r, j)], x.shape[1])

\* sum over r of dY[r][i]
EntryDB(dy, i) ==
    SumTo([r \in 1..dy.shape[1] |-> At2(dy, r, i)], dy.shape[1])

IsDX(g, dy, w) ==
    /\ ~g.isNone
    /\ g.shape = <<dy.shape[1], w.shape[2]>>
    /\ \A r \in 1..dy.shape[1], j \in 1..w.shape[2] : At2(g, r, j) = EntryDX(dy, w, r, j)

IsDW(g, dy, x) ==
    /\ ~g.isNone
    /\ g.shape = <<dy.shape[2], x.shape[2]>>
    /\ \A i \in 1..dy.shape[2], j \in 1..x.shape[2] : At2(g, i, j) = EntryDW(dy, x, i, j)

\* the backward call the state records, if any
HasBackward == grads.call # 0
BackwardCall == calls[grads.call]
Needs == BackwardCall.ctx.needs_input_grad
Returned == HasBackward /\ grads.result.raised = ""

\* a forward call whose tensors have the shapes the layer is meant for
WellShaped(call) ==
    /\ call.passed.input.shape[2] = call.passed.weight.shape[2]
    /\ call.passed.bias.isNone
          \/ call.passed.bias.shape = <<call.passed.weight.shape[1]>>

(***************************************************************************)
(* C1: for X (m x n), W (k x n) and b of length k or absent, forward       *)
(* returns an (m x k) matrix whose entry (r, i) is the sum over j of       *)
(* X[r][j] * W[i][j], plus b[i] when b is present and nothing otherwise.   *)
(***************************************************************************)
C1_ForwardIsAffine ==
    \A c \in 1..Len(calls) :
        LET x == calls[c].passed.input
            w == calls[c].passed.weight
            b == calls[c].passed.bias
            y == calls[c].output
        IN  WellShaped(calls[c]) =>
              /\ calls[c].raised = ""
              /\ ~y.isNone
              /\ y.shape = <<x.shape[1], w.shape[1]>>
              /\ \A r \in 1..x.shape[1], i \in 1..w.shape[1] :
                    At2(y, r, i) = EntryY(x, w, b, r, i)

\* the scenario W=[[2,3]], b=[1], X=[[1,1]] has been run and gave [[6]]
C1_Witness ==
    /\ Len(calls) = 1
    /\ calls[1].passed = [input |-> ScenarioX, weight |-> ScenarioW, bias |-> ScenarioB]
    /\ calls[1].output = Tensor(<<1, 1>>, <<6>>)

(***************************************************************************)
(* C2: with a bias and all three gradients requested, backward on a dY of  *)
(* shape (m x k) returns dX = dY*W of shape (m x n), dW = transpose(dY)*X  *)
(* of shape (k x n), and db of shape (k) whose entry i is the sum of       *)
(* dY[r][i] over the rows r.                                               *)
(***************************************************************************)
C2_BackwardGradients ==
    (/\ HasBackward
     /\ Needs = <<TRUE, TRUE, TRUE>>
     /\ ~BackwardCall.passed.bias.isNone
     /\ grads.grad_output.shape = BackwardCall.output.shape)
    => /\ grads.result.raised = ""
       /\ IsDX(grads.result.grad_input, grads.grad_output, BackwardCall.passed.weight)
       /\ IsDW(grads.result.grad_weight, grads.grad_output, BackwardCall.passed.input)
       /\ ~grads.result.grad_bias.isNone
       /\ grads.result.grad_bias.shape = <<BackwardCall.passed.weight.shape[1]>>
       /\ \A i \in 1..BackwardCall.passed.weight.shape[1] :
             grads.result.grad_bias.data[i] = EntryDB(grads.grad_output, i)

(***************************************************************************)
(* C3: in every backward call that returns, each of dX, dW and db is None  *)
(* exactly when it was not requested, and a computed tensor when it was;   *)
(* db is None as well whenever there is no bias, requested or not.         *)
(***************************************************************************)
C3_UnrequestedAreNone ==
    Returned =>
      /\ grads.result.grad_input.isNone <=> ~Needs[1]
      /\ grads.result.grad_weight.isNone <=> ~Needs[2]
      /\ grads.result.grad_bias.isNone <=>
            (~Needs[3] \/ BackwardCall.passed.bias.isNone)

\* a backward returned dX and db but, dW not being requested, no dW
C3_Witness ==
    /\ Returned
    /\ Needs = <<TRUE, FALSE, TRUE>>
    /\ ~BackwardCall.passed.bias.isNone
    /\ grads.result.grad_weight.isNone
    /\ ~grads.result.grad_input.isNone
    /\ ~grads.result.grad_bias.isNone

(***************************************************************************)
(* C4: Linear(..., bias=False) succeeds and gives a module without a bias  *)
(* and with an initialised W; with bias omitted or True the module has a   *)
(* bias vector of length output_features.                                  *)
(***************************************************************************)
C4_ConstructionWithAndWithoutBias ==
    module.status # "none" =>
      /\ module.bias_arg = "False" =>
            /\ module.status = "ok"
            /\ module.self.bias.isNone
            /\ module.self.weight.shape = <<module.out_arg, module.in_arg>>
      /\ module.bias_arg = "True" =>
            /\ module.status = "ok"
            /\ module.self.bias.shape = <<module.out_arg>>

(***************************************************************************)
(* C5: when X has another number of columns than W, forward fails with a   *)
(* size-mismatch error and returns no output.                              *)
(***************************************************************************)
C5_ForwardRejectsWrongColumns ==
    \A c \in 1..Len(calls) :
        calls[c].passed.input.shape[2] # calls[c].passed.weight.shape[2] =>
          /\ calls[c].raised = "RuntimeError: size mismatch"
          /\ calls[c].output.isNone

\* forward was called with an X of fewer columns than W has, and raised
C5_Witness ==
    /\ Len(calls) = 1
    /\ calls[1].passed.input.shape[2] < calls[1].passed.weight.shape[2]
    /\ calls[1].raised # ""
    /\ calls[1].output.isNone

(***************************************************************************)
(* C6: whenever dY has not the shape (m x k) of the output of the matching *)
(* forward, backward fails with a dimension error and returns no           *)
(* gradients, whichever gradients are requested, with or without bias.     *)
(***************************************************************************)
C6_BackwardRejectsWrongGradOutput ==
    (HasBackward /\ grads.grad_output.shape # BackwardCall.output.shape)
    => /\ grads.result.raised # ""
       /\ grads.result.grad_input.isNone
       /\ grads.result.grad_weight.isNone
       /\ grads.result.grad_bias.isNone

(***************************************************************************)
(* C7: every forward call retains its X, W and b, and the backward of a    *)
(* call, run on a dY of the shape of that call's output, returns the       *)
(* gradients computed from the tensors that very call was given, whatever  *)
(* other forward calls were made before or after it.                       *)
(***************************************************************************)
C7_BackwardUsesItsOwnForward ==
    /\ \A c \in 1..Len(calls) :
          calls[c].ctx.saved_tensors =
              <<calls[c].passed.input, calls[c].passed.weight, calls[c].passed.bias>>
    /\ HasBackward =>
          /\ grads.result.raised = ""
          /\ Needs[1] =>
                IsDX(grads.result.grad_input, grads.grad_output, BackwardCall.passed.weight)
          /\ Needs[2] =>
                IsDW(grads.result.grad_weight, grads.grad_output, BackwardCall.passed.input)
          /\ grads.result.grad_bias.isNone <=>
                (~Needs[3] \/ BackwardCall.passed.bias.isNone)

\* two forward calls on different batches of one shape, and the backward of
\* the first one
C7_Witness ==
    /\ Len(calls) = 2
    /\ calls[1].passed.input # calls[2].passed.input
    /\ calls[1].passed.input.shape = calls[2].passed.input.shape
    /\ grads.call = 1
    /\ Returned
    /\ ~grads.result.grad_weight.isNone

(***************************************************************************)
(* C8: a constructed module has W of shape (output_features x              *)
(* input_features) and, when it has a bias, b of length output_features;   *)
(* forward and backward calls change neither W nor b (shape or contents)   *)
(* nor the X passed to forward.                                            *)
(***************************************************************************)
C8_ParametersAndInputUnchanged ==
    module.status = "ok" =>
      /\ module.self.weight.shape = <<module.out_arg, module.in_arg>>
      /\ ~module.self.bias.isNone => module.self.bias.shape = <<module.out_arg>>
      /\ module.self.weight = init_params.weight
      /\ module.self.bias = init_params.bias
      /\ \A c \in 1..Len(calls) : calls[c].after = calls[c].passed

\* a module whose W is not square, after two forward calls and a backward
C8_Witness ==
    /\ module.status = "ok"
    /\ module.in_arg # module.out_arg
    /\ Len(calls) = 2
    /\ Returned

(***************************************************************************)
(* C9: right after construction every entry of W, and of b when there is   *)
(* a bias, lies in [-0.1, 0.1].                                            *)
(***************************************************************************)
InRange(a) == \A i \in 1..Len(a.data) : a.data[i] \in (-InitLimit)..InitLimit

C9_InitialisedInRange ==
    (module.status = "ok" /\ calls = <<>>) =>
      /\ InRange(module.self.weight)
      /\ InRange(module.self.bias)

\* a fresh module with a bias, whose W holds both ends of the range
C9_Witness ==
    /\ module.status = "ok"
    /\ calls = <<>>
    /\ ~module.self.bias.isNone
    /\ \E i \in 1..Len(module.self.weight.data) : module.self.weight.data[i] = InitLimit
    /\ \E i \in 1..Len(module.self.weight.data) : module.self.weight.data[i] = -InitLimit

(***************************************************************************)
(* C10: backward is deterministic and history-free: a backward call given  *)
(* the same retained X, W, b, the same dY and the same requested gradients *)
(* as the backward call before it returns the same dX, dW and db, whatever *)
(* forward calls lie between the two and whatever came before them.        *)
(***************************************************************************)
SameBackwardArguments ==
    /\ grads.call # 0
    /\ grads'.call # 0
    /\ calls'[grads'.call].ctx = calls[grads.call].ctx
    /\ grads'.grad_output = grads.grad_output

Bump(a, idx) ==
    Tensor(a.shape, [i \in 1..Len(a.data) |-> IF i = idx THEN a.data[i] + 1 ELSE a.data[i]])

\* L = forward(x, w, b).sum()
Loss(x, w, b) ==
    LET y == forward(new_ctx(<<FALSE, FALSE, FALSE>>), x, w, b).output
    IN  SumTo(y.data, Len(y.data))

C11_BackwardMatchesFiniteDifferences ==
    (Returned /\ grads.grad_output = Ones(BackwardCall.output.shape)) =>
        LET x == BackwardCall.passed.input
            w == BackwardCall.passed.weight
            b == BackwardCall.passed.bias
            dW == grads.result.grad_weight
            db == grads.result.grad_bias
        IN  /\ Needs[2] =>
                  /\ dW.shape = w.shape
                  /\ \A idx \in 1..Len(w.data) :
                        dW.data[idx] = Loss(x, Bump(w, idx), b) - Loss(x, w, b)
            /\ (Needs[3] /\ ~b.isNone) =>
                  /\ Len(db.data) = Len(b.data)
                  /\ \A idx \in 1..Len(b.data) :
                        db.data[idx] = Loss(x, w, Bump(b, idx)) - Loss(x, w, b)

\* backward ran on an all-ones dY for a batch of several rows and a layer of
\* several outputs with a bias, and returned dW and db
C11_Witness ==
    /\ Returned
    /\ grads.grad_output = Ones(BackwardCall.output.shape)
    /\ BackwardCall.passed.input.shape[1] >= 2
    /\ BackwardCall.passed.weight.shape[1] >= 2
    /\ ~BackwardCall.passed.bias.isNone
    /\ ~grads.result.grad_weight.isNone
    /\ ~grads.result.grad_bias.isNone

(***************************************************************************)
(* C12: the training loop runs exactly 10 steps and then ends; every step  *)
(* performs, in this order, one forward, one loss computation, one zeroing *)
(* of the stored gradients, one backward and one optimizer update, so no   *)
(* backward runs without the forward of its own step and the gradient an   *)
(* update uses is that of its own step alone.                              *)
(***************************************************************************)
\* 1 when the current step has passed the statement that leads to one of pcs
Passed(pcs) == IF loop.pc \in pcs THEN 1 ELSE 0

C12_TrainingStepsInOrder ==
    /\ loop.epoch \in 0..Epochs
    /\ loop.pc = "done" <=> loop.epoch = Epochs
    /\ loop.forwards = loop.epoch + Passed({"loss", "zero_grad", "backward", "step"})
    /\ loop.losses = loop.epoch + Passed({"zero_grad", "backward", "step"})
    /\ loop.zeroings = loop.epoch + Passed({"backward", "step"})
    /\ loop.backwards = loop.epoch + Passed({"step"})
    /\ loop.steps = loop.epoch
    /\ loop.pc \in {"loss", "zero_grad", "backward"} => loop.graph
    /\ loop.pc = "step" => loop.grad = loop.fresh

\* the loop has ended after 10 of each statement, having moved the parameters
C12_Witness ==
    /\ loop.pc = "done"
    /\ loop.forwards = 10
    /\ loop.losses = 10
    /\ loop.zeroings = 10
    /\ loop.backwards = 10
    /\ loop.steps = 10
    /\ loop.theta # 0

(***************************************************************************)
(* C13: for every constructed Linear module, with or without bias,         *)
(* extra_repr (and so printing the module) returns without raising a       *)
(* description that reports the configured input feature count, the        *)
(* output feature count and whether there is a bias.                       *)
(***************************************************************************)
C13_ExtraReprDescribesModule ==
    printed.called =>
      /\ printed.raised = ""
      /\ printed.text =
            "in_features=" \o ToString(module.in_arg)
               \o ", out_features=" \o ToString(module.out_arg)
               \o ", bias=" \o (IF module.self.bias.isNone THEN "False" ELSE "True")
====
